---- MODULE Spec2Model ----
(***************************************************************************)
(* Model of the two programs of bf_immo:                                   *)
(*   fetch_dvf.py        the bulk pipeline (download, filter, aggregate)   *)
(*   fetch_lepriximmo.py the scrape pipeline (fetch page, scan, fallback)  *)
(*                                                                         *)
(* Python strings are sequences of one-symbol strings, so that strip,      *)
(* upper, replace, split, float() and int() are computed, not assumed.     *)
(* A float is a decimal [m, d] standing for m / 10^d; a value rounded to   *)
(* two decimals is kept as the integer number of hundredths.               *)
(***************************************************************************)
EXTENDS Integers, Sequences, FiniteSets, TLC

VARIABLES
    prog,              \* which program runs: "pt", "page", "dvf", "scrape"
    pc,                \* position in the running function
    run,               \* 1 for the first run of the program, 2 for a second run
    rows,              \* process_transactions: argument rows
    results,           \* process_transactions: returned list
    page,              \* fetch_year_data: the response of requests.get
    price,             \* fetch_year_data: returned value
    src_i,             \* fetch_dvf.main: index of the for loop over DVF_URLS
    all_transactions,  \* fetch_dvf.main: all_transactions
    downloaded_any,    \* fetch_dvf.main: downloaded_any
    observed,          \* history: what download_dvf_file returned, per source
    outcome,           \* history: how the latest download ended
    year_range,        \* scrape_lepriximmo: argument
    start_year,        \* scrape_lepriximmo: start_year
    end_year,          \* scrape_lepriximmo: end_year
    year,              \* scrape_lepriximmo: loop variable of the fetch loop
    yearly_data,       \* scrape_lepriximmo: yearly_data
    fetched,           \* history: what fetch_year_data returned, per year
    output,            \* content of data.json
    prev_output        \* content of data.json left by the first run

vars == <<prog, pc, run, rows, results, page, price, src_i, all_transactions,
          downloaded_any, observed, outcome, year_range, start_year, end_year, year,
          yearly_data, fetched, output, prev_output>>

(***************************************************************************)
(* Bounds of the model.                                                    *)
(***************************************************************************)
MaxCtx == 2        \* rows around the probed row given to process_transactions
MaxRows == 2       \* rows the DVF sources return in one run, all together
MaxSeed == 3       \* seeds the random module may start from
MaxPageRows == 2   \* table rows of a scraped page
MaxClock == 1      \* readings of datetime.now()

(***************************************************************************)
(* Python values                                                           *)
(***************************************************************************)
\* A dictionary value: a string, None, or the key is absent.
Str(s) == [k |-> "str", v |-> s]
None == [k |-> "none", v |-> <<>>]
Absent == [k |-> "absent", v |-> <<>>]

Digit == {"0", "1", "2", "3", "4", "5", "6", "7", "8", "9"}
DigitTable ==
    [c \in Digit |->
        CASE c = "0" -> 0 [] c = "1" -> 1 [] c = "2" -> 2 [] c = "3" -> 3
          [] c = "4" -> 4 [] c = "5" -> 5 [] c = "6" -> 6 [] c = "7" -> 7
          [] c = "8" -> 8 [] c = "9" -> 9]
DigitVal(c) == DigitTable[c]

\* Whitespace of str.strip() and of \s: space, tab, no-break space.
Space == {" ", "tab", "nbsp"}

Lower == <<"a", "b", "c", "d", "e", "f", "g", "h", "i", "j", "k", "l", "m",
           "n", "o", "p", "q", "r", "s", "t", "u", "v", "w", "x", "y", "z">>
Upper == <<"A", "B", "C", "D", "E", "F", "G", "H", "I", "J", "K", "L", "M",
           "N", "O", "P", "Q", "R", "S", "T", "U", "V", "W", "X", "Y", "Z">>

UpperTable ==
    [c \in {Lower[i] : i \in 1..Len(Lower)} |->
        Upper[CHOOSE i \in 1..Len(Lower) : Lower[i] = c]]
UpperChar(c) == IF c \in DOMAIN UpperTable THEN UpperTable[c] ELSE c

\* str.upper()
StrUpper(s) == [i \in 1..Len(s) |-> UpperChar(s[i])]

\* str.strip()
RECURSIVE LStrip(_)
LStrip(s) == IF s # <<>> /\ Head(s) \in Space THEN LStrip(Tail(s)) ELSE s
RECURSIVE RStrip(_)
RStrip(s) ==
    IF s # <<>> /\ s[Len(s)] \in Space THEN RStrip(SubSeq(s, 1, Len(s) - 1)) ELSE s
StrStrip(s) == RStrip(LStrip(s))

\* sub in s
Contains(s, sub) ==
    \E i \in 0..(Len(s) - Len(sub)) : SubSeq(s, i + 1, i + Len(sub)) = sub

\* s.replace(a, b) for a single symbol a and a string b
RECURSIVE Replace(_, _, _)
Replace(s, a, b) ==
    IF s = <<>> THEN <<>>
    ELSE (IF Head(s) = a THEN b ELSE <<Head(s)>>) \o Replace(Tail(s), a, b)

\* s[:n]
Prefix(s, n) == SubSeq(s, 1, IF Len(s) < n THEN Len(s) ELSE n)

\* s.split(sep): the list of the parts of s between occurrences of sep
RECURSIVE Split(_, _)
Split(s, sep) ==
    IF \E i \in 1..Len(s) : s[i] = sep
    THEN LET i == CHOOSE j \in 1..Len(s) : s[j] = sep /\ \A k \in 1..(j - 1) : s[k] # sep
         IN  <<SubSeq(s, 1, i - 1)>> \o Split(SubSeq(s, i + 1, Len(s)), sep)
    ELSE <<s>>

RECURSIVE Pow10(_)
Pow10(n) == IF n = 0 THEN 1 ELSE 10 * Pow10(n - 1)

\* value of a string of digits
RECURSIVE DigitsVal(_)
DigitsVal(s) ==
    IF s = <<>> THEN 0 ELSE 10 * DigitsVal(SubSeq(s, 1, Len(s) - 1)) + DigitVal(s[Len(s)])

AllDigits(s) == \A i \in 1..Len(s) : s[i] \in Digit

\* int(s) of a string: surrounding whitespace is ignored, then an optional
\* minus sign and at least one digit; anything else raises ValueError.
IntBody(s) == IF s # <<>> /\ Head(s) = "-" THEN Tail(s) ELSE s
IntOk(s) == LET b == IntBody(StrStrip(s)) IN b # <<>> /\ AllDigits(b)
IntOf(s) ==
    LET t == StrStrip(s)
    IN  IF t # <<>> /\ Head(t) = "-" THEN 0 - DigitsVal(Tail(t)) ELSE DigitsVal(t)

\* float(s) of a string over the symbols the modelled fields are written in
\* (digits, ".", whitespace, "x"): digits with at most one point and at least
\* one digit; anything else raises ValueError.
FloatOk(s) ==
    LET t == StrStrip(s)
        points == {i \in 1..Len(t) : t[i] = "."}
    IN  /\ Cardinality(points) <= 1
        /\ \A i \in 1..Len(t) : t[i] \in Digit \/ t[i] = "."
        /\ \E i \in 1..Len(t) : t[i] \in Digit
FloatOf(s) ==
    LET t == StrStrip(s)
        points == {i \in 1..Len(t) : t[i] = "."}
        p == IF points = {} THEN Len(t) + 1 ELSE CHOOSE i \in points : TRUE
    IN  [m |-> DigitsVal(SubSeq(t, 1, p - 1) \o SubSeq(t, p + 1, Len(t))),
         d |-> IF points = {} THEN 0 ELSE Len(t) - p]

\* int(x) of a float: truncation toward zero
Trunc(x) == IF x.m >= 0 THEN x.m \div Pow10(x.d) ELSE 0 - ((0 - x.m) \div Pow10(x.d))

\* round(n / q, 2) in hundredths, for n >= 0 and q > 0; a tie goes to the even
\* neighbour.
RoundDiv(n, q) ==
    LET k == n \div q
        r == n % q
    IN  IF 2 * r < q THEN k
        ELSE IF 2 * r > q THEN k + 1
        ELSE IF k % 2 = 0 THEN k ELSE k + 1

\* round(a / b, 2) of two floats, in hundredths
Round2Quot(a, b) == RoundDiv(a.m * Pow10(b.d) * 100, b.m * Pow10(a.d))

(***************************************************************************)
(* String literals of the programs                                         *)
(***************************************************************************)
S92400 == <<"9", "2", "4", "0", "0">>
BROSSOLETTE == <<"B", "R", "O", "S", "S", "O", "L", "E", "T", "T", "E">>
Brossolette == <<"B", "r", "o", "s", "s", "o", "l", "e", "t", "t", "e">>
StrNone == <<"N", "o", "n", "e">>
StrUnknown == <<"U", "n", "k", "n", "o", "w", "n">>

(***************************************************************************)
(* fetch_dvf.process_transactions                                          *)
(***************************************************************************)
\* row.get(key, ''): the default only replaces an absent key
Get(row, key) == IF row[key].k = "absent" THEN Str(<<>>) ELSE row[key]
\* truth value of row.get(key)
Truthy(row, key) == row[key].k = "str" /\ row[key].v # <<>>
\* f"{row.get(key, '')}"
Fmt(row, key) == IF row[key].k = "none" THEN StrNone ELSE Get(row, key).v

\* A filter that rejects a row only when both tests fail.
RejectedIfBoth(postal_code, street) ==
    postal_code # S92400 /\ ~Contains(street, BROSSOLETTE)

\* if postal_code != '92400' or 'BROSSOLETTE' not in street: continue
Rejected(postal_code, street) ==
    postal_code # S92400 \/ ~Contains(street, BROSSOLETTE)

\* The body of the for loop for one row: "append" with the Transaction,
\* "continue", or "raise" when a statement of the body raises outside the
\* inner try (a None value has no strip method).
TransformRow(row, year_label) ==
    IF Get(row, "code_postal").k = "none" THEN [kind |-> "raise"]
    ELSE
    LET postal_code == StrStrip(Get(row, "code_postal").v)
        street == IF Truthy(row, "adresse_nom_voie")
                  THEN StrUpper(row["adresse_nom_voie"].v) ELSE <<>>
    IN
    IF Rejected(postal_code, street) THEN [kind |-> "continue"]
    ELSE IF Get(row, "valeur_fonciere").k = "none" THEN [kind |-> "raise"]
    ELSE IF Get(row, "surface_reelle_bati").k = "none" THEN [kind |-> "raise"]
    ELSE
    LET valeur_str == StrStrip(Get(row, "valeur_fonciere").v)
        surface_str == StrStrip(Get(row, "surface_reelle_bati").v)
    IN
    IF valeur_str = <<>> \/ surface_str = <<>> THEN [kind |-> "continue"]
    ELSE
    LET vs == Replace(valeur_str, ",", <<".">>)
        ss == Replace(surface_str, ",", <<".">>)
    IN
    IF ~FloatOk(vs) \/ ~FloatOk(ss) THEN [kind |-> "continue"]
    ELSE
    LET valeur == FloatOf(vs)
        surface == FloatOf(ss)
    IN
    IF surface.m > 0
    THEN [kind |-> "append",
          tx |-> [year |-> year_label,
                  date |-> IF Truthy(row, "date_mutation")
                           THEN Str(Prefix(row["date_mutation"].v, 10)) ELSE None,
                  address |-> Fmt(row, "adresse_numero") \o <<" ">>
                              \o Fmt(row, "adresse_nom_voie") \o <<",", " ">>
                              \o postal_code,
                  price |-> Trunc(valeur),
                  surface_m2 |-> Trunc(surface),
                  price_per_m2 |-> Round2Quot(valeur, surface),
                  property_type |-> IF Truthy(row, "type_local")
                                    THEN row["type_local"].v ELSE StrUnknown]]
    ELSE [kind |-> "continue"]

\* The loop of a mutated process_transactions whose try encloses the loop:
\* the first raising row ends the loop.
RECURSIVE PTLoopAbort(_, _, _)
PTLoopAbort(rs, year_label, acc) ==
    IF rs = <<>> THEN acc
    ELSE LET r == TransformRow(Head(rs), year_label)
         IN  IF r.kind = "raise" THEN acc
             ELSE PTLoopAbort(Tail(rs), year_label,
                              IF r.kind = "append" THEN Append(acc, r.tx) ELSE acc)

\* The for loop: the except clause inside the loop turns a raise into continue.
RECURSIVE PTLoop(_, _, _)
PTLoop(rs, year_label, acc) ==
    IF rs = <<>> THEN acc
    ELSE LET r == TransformRow(Head(rs), year_label)
         IN  PTLoop(Tail(rs), year_label,
                    IF r.kind = "append" THEN Append(acc, r.tx) ELSE acc)

process_transactions(rs, year_label) == PTLoop(rs, year_label, <<>>)

(***************************************************************************)
(* fetch_dvf.DVF_URLS and download_dvf_file                                *)
(***************************************************************************)
DVF_URLS == <<
    [label |-> <<"2", "0", "2", "0", "_", "H", "2">>, url |-> "8d771135-57c8-480f-a853-3d1d00ea0b69"],
    [label |-> <<"2", "0", "2", "1">>, url |-> "e117fe7d-f7fb-4c52-8089-231e755d19d3"],
    [label |-> <<"2", "0", "2", "2">>, url |-> "8c8abe23-2a82-4b95-8174-1c1e0734c921"],
    [label |-> <<"2", "0", "2", "3">>, url |-> "cc8a50e4-c8d1-4ac2-8de2-c1e4b3c44c86"],
    [label |-> <<"2", "0", "2", "4">>, url |-> "af812b0e-a898-4226-8cc8-5a570b257326"],
    [label |-> <<"2", "0", "2", "5", "_", "H", "1">>, url |-> "4d741143-8331-4b59-95c2-3b24a7bdbe3c"] >>

\* What one download meets: the request fails ("network"), the archive is
\* malformed or has no .txt member ("archive"), reading or parsing the member
\* raises ("parse"), or the rows are read ("ok").
FailureKinds == {"network", "archive", "parse"}

\* download_dvf_file: both except clauses return the empty list.
download_dvf_file(resp) == IF resp.kind = "ok" THEN resp.rows ELSE <<>>

(***************************************************************************)
(* fetch_dvf.generate_sample_data                                          *)
(***************************************************************************)
base_prices == <<
    [year |-> <<"2", "0", "2", "0">>, avg |-> 5200, variance |-> 800],
    [year |-> <<"2", "0", "2", "1">>, avg |-> 5500, variance |-> 850],
    [year |-> <<"2", "0", "2", "2">>, avg |-> 6100, variance |-> 900],
    [year |-> <<"2", "0", "2", "3">>, avg |-> 6400, variance |-> 950],
    [year |-> <<"2", "0", "2", "4">>, avg |-> 6800, variance |-> 1000],
    [year |-> <<"2", "0", "2", "5">>, avg |-> 7100, variance |-> 1100] >>

\* The random module: a generator whose draws are a function of the state it
\* was seeded with at import (from the operating system, differently in each
\* process). Rand is the state after one draw.
Rand(s) == (75 * s + 74) % 65537
\* random.randint(a, b) read off the state
RandInt(a, b, s) == a + (s % (b - a + 1))
\* random.gauss(0, variance / 3), in hundredths, within three deviations
Gauss(variance, s) == RandInt(0 - 100 * variance, 100 * variance, s)

DigitChar(n) == <<"0", "1", "2", "3", "4", "5", "6", "7", "8", "9">>[n + 1]
\* str(n) for n >= 0
RECURSIVE IntStr(_)
IntStr(n) == IF n < 10 THEN <<DigitChar(n)>> ELSE IntStr(n \div 10) \o <<DigitChar(n % 10)>>
Pad2(n) == <<DigitChar(n \div 10), DigitChar(n % 10)>>

IsLeap(y) == (y % 4 = 0 /\ y % 100 # 0) \/ y % 400 = 0
MonthDays(y) == <<31, IF IsLeap(y) THEN 29 ELSE 28, 31, 30, 31, 30, 31, 31, 30, 31, 30, 31>>
\* (datetime(y, 1, 1) + timedelta(days=n)).strftime("%Y-%m-%d"), for n <= 365
RECURSIVE DateFrom(_, _, _)
DateFrom(y, m, n) ==
    IF m > 12 THEN DateFrom(y + 1, 1, n)
    ELSE IF n >= MonthDays(y)[m] THEN DateFrom(y, m + 1, n - MonthDays(y)[m])
    ELSE IntStr(y) \o <<"-">> \o Pad2(m) \o <<"-">> \o Pad2(n + 1)

PropertyTypes == << <<"A", "p", "a", "r", "t", "m", "e", "n", "t">>,
                    <<"S", "t", "u", "d", "i", "o">>,
                    <<"2", "-", "r", "o", "o", "m">> >>

SeqSum(s) ==
    LET RECURSIVE go(_)
        go(i) == IF i = 0 THEN 0 ELSE go(i - 1) + s[i]
    IN  go(Len(s))
SeqMin(s) == CHOOSE v \in {s[i] : i \in 1..Len(s)} : \A j \in 1..Len(s) : v <= s[j]
SeqMax(s) == CHOOSE v \in {s[i] : i \in 1..Len(s)} : \A j \in 1..Len(s) : v >= s[j]
\* prices = [tx['price_per_m2'] for tx in ...]
PricePerM2(txs) == [i \in 1..Len(txs) |-> txs[i].price_per_m2]

\* One entry of yearly_statistics of the bulk report, from a non-empty list of
\* Transactions (prices in hundredths).
YearStat(y, txs) ==
    [year |-> y,
     avg_price_per_m2 |-> RoundDiv(SeqSum(PricePerM2(txs)), Len(txs)),
     min_price_per_m2 |-> SeqMin(PricePerM2(txs)),
     max_price_per_m2 |-> SeqMax(PricePerM2(txs)),
     transaction_count |-> Len(txs)]

\* One iteration of the inner loop: four draws, one Transaction.
SampleTx(cfg, i, s) ==
    LET s1 == Rand(s)
        s2 == Rand(s1)
        s3 == Rand(s2)
        s4 == Rand(s3)
        price_per_m2 == 100 * cfg.avg + Gauss(cfg.variance, s1)
        surface == RandInt(50, 150, s2)
    IN  [tx |-> [year |-> cfg.year,
                 date |-> Str(DateFrom(IntOf(cfg.year), 1, RandInt(0, 365, s3))),
                 address |-> IntStr(12 + i) \o <<" ", "R", "u", "e", " ">> \o Brossolette
                             \o <<",", " ">> \o S92400,
                 price |-> (price_per_m2 * surface) \div 100,
                 surface_m2 |-> surface,
                 price_per_m2 |-> price_per_m2,
                 property_type |-> PropertyTypes[RandInt(1, 3, s4)]],
         rng |-> s4]

RECURSIVE SampleYear(_, _, _, _, _)
SampleYear(cfg, n, i, s, acc) ==
    IF i = n THEN [txs |-> acc, rng |-> s]
    ELSE LET r == SampleTx(cfg, i, s)
         IN  SampleYear(cfg, n, i + 1, r.rng, Append(acc, r.tx))

RECURSIVE SampleYears(_, _, _, _)
SampleYears(k, s, txs, stats) ==
    IF k > Len(base_prices) THEN [all_transactions |-> txs, yearly_stats |-> stats]
    ELSE LET cfg == base_prices[k]
             s0 == Rand(s)
             yr == SampleYear(cfg, RandInt(3, 8, s0), 0, s0, <<>>)
         IN  SampleYears(k + 1, yr.rng, txs \o yr.txs,
                         Append(stats, YearStat(IntOf(cfg.year), yr.txs)))

Location ==
    [street |-> "Rue Brossolette", postal_code |-> "92400",
     city |-> "Courbevoie", department |-> "Hauts-de-Seine"]

SampleLabel == "Sample data (DVF real data available at https://www.data.gouv.fr)"
RealLabel == "DVF (data.gouv.fr)"

generate_sample_data(seed) ==
    LET g == SampleYears(1, seed, <<>>, <<>>)
    IN  [location |-> Location,
         all_transactions |-> g.all_transactions,
         yearly_statistics |-> g.yearly_stats,
         total_transactions |-> Len(g.all_transactions),
         data_source |-> SampleLabel]

(***************************************************************************)
(* fetch_dvf.main: grouping and yearly statistics                          *)
(***************************************************************************)
\* a < b for strings of digits, as Python orders strings
RECURSIVE StrLess(_, _)
StrLess(a, b) ==
    IF b = <<>> THEN FALSE
    ELSE IF a = <<>> THEN TRUE
    ELSE IF Head(a) # Head(b) THEN DigitVal(Head(a)) < DigitVal(Head(b))
    ELSE StrLess(Tail(a), Tail(b))

\* sorted(keys)
RECURSIVE Sorted(_)
Sorted(keys) ==
    IF keys = {} THEN <<>>
    ELSE LET lo == CHOOSE k \in keys : \A o \in keys : o = k \/ StrLess(k, o)
         IN  <<lo>> \o Sorted(keys \ {lo})

\* by_year[y]
ByYear(txs, y) == SelectSeq(txs, LAMBDA tx : tx.year = y)
\* the truth value of tx['price_per_m2']
Priced(tx) == tx.price_per_m2 # 0

RECURSIVE StatsOf(_, _)
StatsOf(keys, txs) ==
    IF keys = <<>> THEN <<>>
    ELSE LET prices == SelectSeq(ByYear(txs, Head(keys)), Priced)
         IN  (IF prices # <<>> THEN <<YearStat(IntOf(Head(keys)), prices)>> ELSE <<>>)
             \o StatsOf(Tail(keys), txs)

RealReport(txs) ==
    [location |-> Location,
     all_transactions |-> txs,
     yearly_statistics |-> StatsOf(Sorted({txs[i].year : i \in 1..Len(txs)}), txs),
     total_transactions |-> Len(txs),
     data_source |-> RealLabel]

(***************************************************************************)
(* fetch_lepriximmo.parse_year_range                                       *)
(***************************************************************************)
Pair(a, b) == [start |-> a, end |-> b]

parse_year_range(arg) ==
    LET parts == Split(arg, "-")
    IN  IF Contains(arg, <<"-">>) /\ Len(parts) = 2 /\ IntOk(parts[1]) /\ IntOk(parts[2])
        THEN Pair(IntOf(parts[1]), IntOf(parts[2]))
        ELSE Pair(2020, 2025)

(***************************************************************************)
(* fetch_lepriximmo.fetch_year_data                                        *)
(* A page is the list of its tr rows, a row the list of the stripped texts *)
(* of its td cells. The literal "€/m²" of the pattern is the one symbol    *)
(* "eur/m2". An Optional[int] is <<>> for None and <<n>> for n.            *)
(***************************************************************************)
PriceChar(c) == c \in Digit \/ c \in Space

\* the end of the run of [\d\s] symbols that starts at p
RECURSIVE RunEnd(_, _)
RunEnd(t, p) == IF p < Len(t) /\ PriceChar(t[p + 1]) THEN RunEnd(t, p + 1) ELSE p

\* re.search(r'([\d\s]+)\s*€/m²', t): the start positions that match
MatchStarts(t) ==
    {p \in 1..Len(t) : /\ PriceChar(t[p])
                       /\ RunEnd(t, p) < Len(t)
                       /\ t[RunEnd(t, p) + 1] = "eur/m2"}
HasMatch(t) == MatchStarts(t) # {}
\* match.group(1) of the leftmost match
Group1(t) ==
    LET p == CHOOSE q \in MatchStarts(t) : \A o \in MatchStarts(t) : q <= o
    IN  SubSeq(t, p, RunEnd(t, p))

\* the price a cell yields: its match with spaces and no-break spaces removed,
\* when int() accepts it
CellPrice(t) ==
    IF HasMatch(t)
    THEN LET price_str == Replace(Replace(Group1(t), " ", <<>>), "nbsp", <<>>)
         IN  IF IntOk(price_str) THEN <<IntOf(price_str)>> ELSE <<>>
    ELSE <<>>

\* for cell in cells: the first cell that yields a price returns it
RECURSIVE ScanCells(_)
ScanCells(cells) ==
    IF cells = <<>> THEN <<>>
    ELSE IF CellPrice(Head(cells)) # <<>> THEN CellPrice(Head(cells))
    ELSE ScanCells(Tail(cells))

IsStreetRow(cells) == cells # <<>> /\ Contains(cells[1], Brossolette)

\* A scan in which the first row naming the street ends the search.
RECURSIVE ScanRowsFirstOnly(_)
ScanRowsFirstOnly(trs) ==
    IF trs = <<>> THEN <<>>
    ELSE IF IsStreetRow(Head(trs)) THEN ScanCells(Head(trs))
    ELSE ScanRowsFirstOnly(Tail(trs))

\* for row in rows: a row naming the street returns the price of its first
\* parsable cell; a row without one lets the loop go on to the next row
RECURSIVE ScanRows(_)
ScanRows(trs) ==
    IF trs = <<>> THEN <<>>
    ELSE IF IsStreetRow(Head(trs)) /\ ScanCells(Head(trs)) # <<>> THEN ScanCells(Head(trs))
    ELSE ScanRows(Tail(trs))

\* resp.kind = "error": requests.get or raise_for_status raised
fetch_year_data(resp) == IF resp.kind = "error" THEN <<>> ELSE ScanRows(resp.rows)

(***************************************************************************)
(* fetch_lepriximmo.scrape_lepriximmo                                      *)
(***************************************************************************)
fallback_data ==
    [y \in 2020..2030 |->
        CASE y = 2020 -> 4800 [] y = 2021 -> 5100 [] y = 2022 -> 5500
          [] y = 2023 -> 5900 [] y = 2024 -> 6400 [] y = 2025 -> 5005
          [] y = 2026 -> 5100 [] y = 2027 -> 5200 [] y = 2028 -> 5300
          [] y = 2029 -> 5400 [] y = 2030 -> 5500]

\* the truth value of an Optional[int]
TruthyInt(p) == p # <<>> /\ p[1] # 0

\* final_data[y]
FinalPrice(data, y) ==
    IF y \in DOMAIN data THEN data[y]
    ELSE IF y \in DOMAIN fallback_data THEN fallback_data[y] ELSE 5500

\* yearly_statistics: sorted(final_data.items()) over range(start, end + 1)
RECURSIVE ScrapeStats(_, _, _)
ScrapeStats(data, y, last) ==
    IF y > last THEN <<>>
    ELSE <<[year |-> y, price_per_m2 |-> FinalPrice(data, y)]>> \o ScrapeStats(data, y + 1, last)

ScrapeLocation ==
    [street |-> "Rue Pierre Brossolette", postal_code |-> "92400",
     city |-> "Courbevoie", department |-> "Hauts-de-Seine"]

ScrapeReport(data, first, last, now) ==
    [location |-> ScrapeLocation,
     yearly_statistics |-> ScrapeStats(data, first, last),
     data_source |-> "LePrixImmo.fr (based on DVF - Demandes de Valeurs Foncières)",
     last_updated |-> now]

(***************************************************************************)
(* fetch_dvf.main: the loop body and the choice of the report              *)
(***************************************************************************)
\* year.split('_')[0]
YearClean(label) == Split(label, "_")[1]

\* The body of the for loop over DVF_URLS with extend replaced by assignment.
LoopBodyAssign(txs, any, label, got) ==
    IF got # <<>>
    THEN [all_transactions |-> process_transactions(got, YearClean(label)),
          downloaded_any |-> TRUE]
    ELSE [all_transactions |-> txs, downloaded_any |-> any]

\* The body of the for loop over DVF_URLS with the flag set for every source.
LoopBodyFlagAlways(txs, any, label, got) ==
    IF got # <<>>
    THEN [all_transactions |-> txs \o process_transactions(got, YearClean(label)),
          downloaded_any |-> TRUE]
    ELSE [all_transactions |-> txs, downloaded_any |-> TRUE]

\* The body of the for loop over DVF_URLS, given what download_dvf_file returned.
LoopBody(txs, any, label, got) ==
    IF got # <<>>
    THEN [all_transactions |-> txs \o process_transactions(got, YearClean(label)),
          downloaded_any |-> TRUE]
    ELSE [all_transactions |-> txs, downloaded_any |-> any]

\* if not downloaded_any: sample data, else the real report
BuildOutput(txs, any, seed) ==
    IF ~any THEN generate_sample_data(seed) ELSE RealReport(txs)

(***************************************************************************)
(* Inputs                                                                  *)
(***************************************************************************)
SeqsUpTo(S, n) == UNION {[1..k -> S] : k \in 0..n}

Y2020 == <<"2", "0", "2", "0">>
RueBrossolette == <<"R", "u", "e", " ">> \o Brossolette
Hugo == <<"R", "u", "e", " ", "H", "u", "g", "o">>

Row(cp, voie, valeur, surface) ==
    [code_postal |-> cp, adresse_nom_voie |-> voie, valeur_fonciere |-> valeur,
     surface_reelle_bati |-> surface,
     date_mutation |-> Str(<<"2", "0", "2", "0", "-", "0", "7", "-", "0", "1", " ", "x">>),
     adresse_numero |-> Str(<<"1", "2">>),
     type_local |-> None]

PostalValues == {Str(S92400), Str(<<" ">> \o S92400 \o <<" ">>),
                 Str(<<"7", "5", "0", "0", "1">>), None}
StreetValues == {Str(RueBrossolette), Str(BROSSOLETTE), Str(Hugo)}
ValeurValues == {Str(<<"1", "0", "0", "0">>), Str(<<"0">>), Str(<<"x">>)}
SurfaceValues == {Str(<<"5", "0">>), Str(<<"0">>), Str(<<>>), Str(<<" ">>), Absent, None,
                  Str(<<"x">>), Str(<<"0", ",", "5">>), Str(<<"1", ".", "5">>),
                  Str(<<"1", ".", "2", ".", "3">>)}

\* the rows probed: every combination of the four fields the filter reads
ProbeRows ==
    {Row(cp, voie, valeur, surface) :
        cp \in PostalValues, voie \in StreetValues,
        valeur \in ValeurValues, surface \in SurfaceValues}

GoodRow == Row(Str(S92400), Str(RueBrossolette), Str(<<"9", "0", "0">>), Str(<<"3", "0">>))
RaisingRow == Row(None, Str(RueBrossolette), Str(<<"9", "0", "0">>), Str(<<"3", "0">>))
ZeroSurfaceRow == Row(Str(S92400), Str(RueBrossolette), Str(<<"9", "0", "0">>), Str(<<"0">>))
ContextRows == {GoodRow, RaisingRow, ZeroSurfaceRow}

\* ctx with row r inserted after its first k rows
Insert(ctx, k, r) == SubSeq(ctx, 1, k) \o <<r>> \o SubSeq(ctx, k + 1, Len(ctx))

Contexts == SeqsUpTo(ContextRows, MaxCtx)

\* the rows of the bulk pipeline's sources
DvfRowA == Row(Str(S92400), Str(RueBrossolette), Str(<<"1", "0", "0", "0">>), Str(<<"5", "0">>))
DvfRowZ == Row(Str(S92400), Str(BROSSOLETTE), Str(<<"0">>), Str(<<"5", "0">>))
DvfRowF == Row(Str(S92400), Str(BROSSOLETTE), Str(<<"1", "0", "0", "0">>), Str(<<"0", ",", "5">>))
DvfRowOther == Row(Str(<<"7", "5", "0", "0", "1">>), Str(Hugo), Str(<<"1", "0", "0", "0">>),
                   Str(<<"5", "0">>))
DvfRows == {DvfRowA, DvfRowZ, DvfRowF, DvfRowOther}
\* the number of rows the sources have returned so far
RECURSIVE RowsRead(_)
RowsRead(log) == IF log = <<>> THEN 0 ELSE Len(Head(log).rows) + RowsRead(Tail(log))

\* the texts of the td cells of the scraped pages
PriceCell(digits) == digits \o <<" ", "eur/m2">>
CellTexts ==
    {RueBrossolette,
     <<"b", "r", "o", "s", "s", "o", "l", "e", "t", "t", "e">>,
     RueBrossolette \o <<" ">> \o PriceCell(<<"4">>),
     PriceCell(<<"5", " ", "0", "0", "5">>),
     <<"1", "x", "6", "nbsp", "1", "0", "0", "eur/m2">>,
     PriceCell(<<"5", "tab", "0", "0", "5">>)}
PageRows == SeqsUpTo(CellTexts, 2)
PageResponse(kind, trs) == [kind |-> kind, rows |-> trs]

\* the responses the scrape pipeline meets, year after year
ScrapeResponses ==
    {[kind |-> "error", rows |-> <<>>],
     [kind |-> "ok", rows |-> <<>>],
     [kind |-> "ok", rows |-> << <<RueBrossolette, PriceCell(<<"5", " ", "0", "0", "5">>)>> >>],
     [kind |-> "ok", rows |-> << <<RueBrossolette, PriceCell(<<"0">>)>> >>]}

\* the command-line arguments of the scrape pipeline
YearRanges ==
    {<<"2", "0", "2", "4", "-", "2", "0", "2", "5">>,
     <<"2", "0", "3", "0", "-", " ", "2", "0", "3", "1">>,
     <<"2", "0", "2", "5", "-", "2", "0", "2", "4">>,
     <<"2", "0", "2", "5">>,
     <<"2", "0", "x", "-", "2", "0", "2", "5">>,
     <<"2", "0", "2", "0", "-", "2", "0", "2", "1", "-", "2", "0", "2", "2">>}

Seeds == 0..MaxSeed
Clock == 0..MaxClock

(***************************************************************************)
(* State machine                                                           *)
(***************************************************************************)
NoResponse == [kind |-> "error", rows |-> <<>>]
NoData == [y \in {} |-> 0]

\* process_transactions on a list of rows
InitPT ==
    /\ prog = "pt" /\ pc = "call"
    /\ run = 1
    /\ \E ctx \in Contexts : \E k \in 0..Len(ctx) : \E r \in ProbeRows :
            rows = Insert(ctx, k, r)
    /\ results = <<>>
    /\ page = NoResponse /\ price = <<>>
    /\ src_i = 1 /\ all_transactions = <<>> /\ downloaded_any = FALSE
    /\ observed = <<>> /\ outcome = "none"
    /\ year_range = <<>> /\ start_year = 0 /\ end_year = 0 /\ year = 0
    /\ yearly_data = NoData /\ fetched = NoData
    /\ output = <<>> /\ prev_output = <<>>

CallProcessTransactions ==
    /\ prog = "pt" /\ pc = "call"
    /\ results' = process_transactions(rows, Y2020)
    /\ pc' = "done"
    /\ UNCHANGED <<prog, run, rows, page, price, src_i, all_transactions, downloaded_any,
                   observed, outcome, year_range, start_year, end_year, year, yearly_data, fetched,
                   output, prev_output>>

NextPT == CallProcessTransactions
SpecPT == InitPT /\ [][NextPT]_vars

\* fetch_year_data on a response
InitPage ==
    /\ prog = "page" /\ pc = "call"
    /\ run = 1
    /\ rows = <<>> /\ results = <<>>
    /\ \/ page = PageResponse("error", <<>>)
       \/ \E n \in 0..MaxPageRows : \E trs \in [1..n -> PageRows] :
              page = PageResponse("ok", trs)
    /\ price = <<>>
    /\ src_i = 1 /\ all_transactions = <<>> /\ downloaded_any = FALSE
    /\ observed = <<>> /\ outcome = "none"
    /\ year_range = <<>> /\ start_year = 0 /\ end_year = 0 /\ year = 0
    /\ yearly_data = NoData /\ fetched = NoData
    /\ output = <<>> /\ prev_output = <<>>

CallFetchYearData ==
    /\ prog = "page" /\ pc = "call"
    /\ price' = fetch_year_data(page)
    /\ pc' = "done"
    /\ UNCHANGED <<prog, run, rows, results, page, src_i, all_transactions, downloaded_any,
                   observed, outcome, year_range, start_year, end_year, year, yearly_data, fetched,
                   output, prev_output>>

NextPage == CallFetchYearData
SpecPage == InitPage /\ [][NextPage]_vars

\* fetch_dvf.main
InitDvf ==
    /\ prog = "dvf" /\ pc = "loop"
    /\ run = 1
    /\ rows = <<>> /\ results = <<>>
    /\ page = NoResponse /\ price = <<>>
    /\ src_i = 1 /\ all_transactions = <<>> /\ downloaded_any = FALSE
    /\ observed = <<>> /\ outcome = "none"
    /\ year_range = <<>> /\ start_year = 0 /\ end_year = 0 /\ year = 0
    /\ yearly_data = NoData /\ fetched = NoData
    /\ output = <<>> /\ prev_output = <<>>

\* One iteration of the for loop over DVF_URLS: the download meets resp. A
\* second run meets what the first run met.
Source(resp) ==
    LET label == DVF_URLS[src_i].label
        got == download_dvf_file(resp)
        body == LoopBody(all_transactions, downloaded_any, label, got)
        entry == [label |-> label, rows |-> got]
    IN  /\ prog = "dvf" /\ pc = "loop"
        /\ src_i <= Len(DVF_URLS)
        /\ IF run = 1 THEN observed' = Append(observed, entry)
           ELSE observed[src_i] = entry /\ observed' = observed
        /\ all_transactions' = body.all_transactions
        /\ downloaded_any' = body.downloaded_any
        /\ src_i' = src_i + 1
        /\ outcome' = resp.kind
        /\ UNCHANGED <<prog, pc, run, rows, results, page, price, year_range, start_year,
                       end_year, year, yearly_data, fetched, output, prev_output>>

SourceRead ==
    \E n \in 0..(IF run = 1 THEN MaxRows - RowsRead(observed) ELSE MaxRows) :
        \E l \in [1..n -> DvfRows] : Source([kind |-> "ok", rows |-> l])
SourceNetworkError == Source([kind |-> "network", rows |-> <<>>])
SourceArchiveError == Source([kind |-> "archive", rows |-> <<>>])
SourceParseError == Source([kind |-> "parse", rows |-> <<>>])

\* the for loop over DVF_URLS is exhausted
CanWrite == prog = "dvf" /\ pc = "loop" /\ src_i > Len(DVF_URLS)

\* After the loop: build the report and write data.json. The seed is the
\* state of the random module, read only when generate_sample_data is called.
WriteDvf ==
    /\ CanWrite
    /\ \E seed \in (IF downloaded_any THEN {0} ELSE Seeds) :
        output' = <<BuildOutput(all_transactions, downloaded_any, seed)>>
    /\ pc' = "done"
    /\ UNCHANGED <<prog, run, rows, results, page, price, src_i, all_transactions,
                   downloaded_any, observed, outcome, year_range, start_year, end_year, year,
                   yearly_data, fetched, prev_output>>

NextDvf ==
    \/ SourceRead
    \/ SourceNetworkError
    \/ SourceArchiveError
    \/ SourceParseError
    \/ WriteDvf
Spec == InitDvf /\ [][NextDvf]_vars

\* fetch_lepriximmo.main
InitScrape ==
    /\ prog = "scrape" /\ pc = "parse"
    /\ run = 1
    /\ rows = <<>> /\ results = <<>>
    /\ page = NoResponse /\ price = <<>>
    /\ src_i = 1 /\ all_transactions = <<>> /\ downloaded_any = FALSE
    /\ observed = <<>> /\ outcome = "none"
    /\ year_range \in YearRanges /\ start_year = 0 /\ end_year = 0 /\ year = 0
    /\ yearly_data = NoData /\ fetched = NoData
    /\ output = <<>> /\ prev_output = <<>>

ParseArgs ==
    /\ prog = "scrape" /\ pc = "parse"
    /\ start_year' = parse_year_range(year_range).start
    /\ end_year' = parse_year_range(year_range).end
    /\ year' = parse_year_range(year_range).start
    /\ pc' = "fetch"
    /\ UNCHANGED <<prog, run, rows, results, page, price, src_i, all_transactions,
                   downloaded_any, observed, outcome, year_range, yearly_data, fetched, output,
                   prev_output>>

\* if price: yearly_data[year] = price
Keep(data, y, p) == IF TruthyInt(p) THEN (y :> p[1]) @@ data ELSE data

\* One iteration of the fetch loop. A second run meets the results of the
\* first run.
FetchYear ==
    /\ prog = "scrape" /\ pc = "fetch"
    /\ year <= end_year
    /\ \E resp \in ScrapeResponses :
        LET p == fetch_year_data(resp)
        IN  /\ IF run = 1 THEN fetched' = (year :> p) @@ fetched
               ELSE fetched[year] = p /\ fetched' = fetched
            /\ yearly_data' = Keep(yearly_data, year, p)
    /\ year' = year + 1
    /\ UNCHANGED <<prog, pc, run, rows, results, page, price, src_i, all_transactions,
                   downloaded_any, observed, outcome, year_range, start_year, end_year, output,
                   prev_output>>

\* After the loop: build the report, stamp it and write data.json.
WriteScrape ==
    /\ prog = "scrape" /\ pc = "fetch"
    /\ year > end_year
    /\ \E now \in Clock :
        output' = <<ScrapeReport(yearly_data, start_year, end_year, now)>>
    /\ pc' = "done"
    /\ UNCHANGED <<prog, run, rows, results, page, price, src_i, all_transactions,
                   downloaded_any, observed, outcome, year_range, start_year, end_year, year,
                   yearly_data, fetched, prev_output>>

NextScrape == ParseArgs \/ FetchYear \/ WriteScrape
SpecScrape == InitScrape /\ [][NextScrape]_vars

\* Either program run twice on the same input: the second run starts from
\* the file the first left and meets the same downloads or fetch results.
RunAgain ==
    /\ pc = "done" /\ run = 1
    /\ run' = 2
    /\ prev_output' = output
    /\ pc' = IF prog = "dvf" THEN "loop" ELSE "parse"
    /\ src_i' = 1 /\ all_transactions' = <<>> /\ downloaded_any' = FALSE
    /\ outcome' = "none"
    /\ start_year' = 0 /\ end_year' = 0 /\ year' = 0 /\ yearly_data' = NoData
    /\ UNCHANGED <<prog, rows, results, page, price, observed, year_range, fetched, output>>

InitTwice == InitDvf \/ InitScrape
NextTwice == NextDvf \/ NextScrape \/ RunAgain
SpecTwice == InitTwice /\ [][NextTwice]_vars

(***************************************************************************)
(* Claims                                                                  *)
(***************************************************************************)
Min(S) == CHOOSE v \in S : \A o \in S : v <= o

\* the Transactions the rows at the positions in keep yield, row by row
RECURSIVE YieldOf(_, _, _)
YieldOf(rs, keep(_), year_label) ==
    IF rs = <<>> THEN <<>>
    ELSE (IF keep(Head(rs)) /\ TransformRow(Head(rs), year_label).kind = "append"
          THEN <<TransformRow(Head(rs), year_label).tx>> ELSE <<>>)
         \o YieldOf(Tail(rs), keep, year_label)

\* the row is of the target street: its postal code, trimmed, is "92400" and
\* its street name, uppercased, contains "BROSSOLETTE"
MatchesTarget(row) ==
    /\ row.code_postal.k = "str"
    /\ StrStrip(row.code_postal.v) = S92400
    /\ row.adresse_nom_voie.k = "str"
    /\ Contains(StrUpper(row.adresse_nom_voie.v), BROSSOLETTE)

\* the row's other fields would make a Transaction
Usable(row) ==
    /\ row.valeur_fonciere = Str(<<"1", "0", "0", "0">>)
    /\ row.surface_reelle_bati = Str(<<"5", "0">>)

\* C1: the Transactions process_transactions returns are exactly those of the
\* rows whose trimmed code_postal is "92400" and whose uppercased
\* adresse_nom_voie contains "BROSSOLETTE", in row order; no other row
\* contributes one, whatever its other fields are.
C1_OnlyTargetRows ==
    (prog = "pt" /\ pc = "done") =>
        /\ results = YieldOf(rows, MatchesTarget, Y2020)
        /\ Len(results) <= Len(SelectSeq(rows, MatchesTarget))

\* C1 witness: a mixed input, where a row of another postal code with usable
\* value and surface stands beside rows that yield Transactions.
C1_Witness ==
    /\ prog = "pt" /\ pc = "done"
    /\ results # <<>>
    /\ \E i \in 1..Len(rows) :
        /\ rows[i].code_postal = Str(<<"7", "5", "0", "0", "1">>)
        /\ Usable(rows[i])
        /\ Contains(StrUpper(rows[i].adresse_nom_voie.v), BROSSOLETTE)

\* the written report of the bulk pipeline
Report == output[1]
RealWritten == prog = "dvf" /\ pc = "done" /\ Report.data_source = RealLabel
Elems(seq) == {seq[i] : i \in 1..Len(seq)}

\* C2: every Transaction in all_transactions of a written Report has
\* surface_m2 > 0, on the real-data path and on the sample-data path.
C2_SurfacePositive ==
    (prog = "dvf" /\ pc = "done") =>
        \A tx \in Elems(Report.all_transactions) : tx.surface_m2 > 0

\* the number of Transactions of the report in year y
CountYear(txs, y) == Len(SelectSeq(txs, LAMBDA tx : IntOf(tx.year) = y))
TransactionCount(st) == [i \in 1..Len(st) |-> st[i].transaction_count]

\* C3: in a Report of the real-data path every entry of yearly_statistics
\* counts the Transactions of all_transactions of its year, and the counts sum
\* to total_transactions.
C3_CountsMatch ==
    RealWritten =>
        /\ \A st \in Elems(Report.yearly_statistics) :
            st.transaction_count = CountYear(Report.all_transactions, st.year)
        /\ SeqSum(TransactionCount(Report.yearly_statistics)) = Report.total_transactions

\* C4: in a Report of the real-data path yearly_statistics has exactly one
\* entry for each year that has a Transaction, none for another year, and the
\* entries are in strictly ascending year order.
C4_OneEntryPerYear ==
    RealWritten =>
        LET st == Report.yearly_statistics
        IN  /\ {st[i].year : i \in 1..Len(st)}
               = {IntOf(tx.year) : tx \in Elems(Report.all_transactions)}
            /\ \A i \in 1..(Len(st) - 1) : st[i].year < st[i + 1].year

AllEmpty == \A i \in 1..Len(observed) : observed[i].rows = <<>>

\* C5: if every source yields an empty row list the written Report is the
\* synthetic sample (3 to 8 Transactions a year, total_transactions their
\* number, the sample label); the Report carries the real label exactly when
\* a source returned a row, and then holds main's all_transactions.
C5_SampleOnlyWhenAllEmpty ==
    (prog = "dvf" /\ pc = "done") =>
        /\ Report.data_source \in {SampleLabel, RealLabel}
        /\ AllEmpty <=> Report.data_source = SampleLabel
        /\ Report.total_transactions = Len(Report.all_transactions)
        /\ Report.data_source = SampleLabel =>
            /\ Len(Report.yearly_statistics) = Len(base_prices)
            /\ \A st \in Elems(Report.yearly_statistics) :
                /\ st.transaction_count \in 3..8
                /\ st.transaction_count = CountYear(Report.all_transactions, st.year)
            /\ SeqSum(TransactionCount(Report.yearly_statistics)) = Report.total_transactions
        /\ Report.data_source = RealLabel => Report.all_transactions = all_transactions

\* C5 witness: every source came back empty and the sample was written.
C5_Witness ==
    /\ prog = "dvf" /\ pc = "done"
    /\ Len(observed) = Len(DVF_URLS) /\ AllEmpty
    /\ Report.data_source = SampleLabel
    /\ Report.total_transactions >= 18

\* the Transactions of one attempted source
Contribution(e) == process_transactions(e.rows, YearClean(e.label))
RECURSIVE Concat(_)
Concat(log) == IF log = <<>> THEN <<>> ELSE Contribution(Head(log)) \o Concat(Tail(log))

\* the state part of C6
SourcesInOrder ==
    (prog = "dvf" /\ run = 1) =>
        /\ Len(observed) = src_i - 1
        /\ \A i \in 1..Len(observed) : observed[i].label = DVF_URLS[i].label
        /\ outcome \in FailureKinds => observed[Len(observed)].rows = <<>>
        /\ all_transactions = Concat(observed)
        /\ pc = "done" => Len(observed) = Len(DVF_URLS) /\ output # <<>>
        /\ (pc = "loop" /\ src_i <= Len(DVF_URLS)) =>
            ENABLED SourceRead /\ ENABLED SourceNetworkError
                /\ ENABLED SourceArchiveError /\ ENABLED SourceParseError
        /\ (pc = "loop" /\ src_i > Len(DVF_URLS)) => CanWrite

\* a step of the run goes on to the next source or, after the last, writes
Advance ==
    \/ pc' = "loop" /\ src_i' = src_i + 1 /\ src_i <= Len(DVF_URLS) /\ output' = output
    \/ pc' = "done" /\ src_i = Len(DVF_URLS) + 1 /\ src_i' = src_i /\ output' # <<>>

\* C6: the sources are attempted once each in table order, whatever each
\* download meets; a failed download returns no rows and adds no
\* Transactions; all_transactions is the concatenation in source order of the
\* Transactions of the sources attempted; the run is never stuck before the
\* write of data.json, and every step takes it nearer: to the next source or,
\* after the sixth, to the write.
C6_SourcesInOrder == []SourcesInOrder /\ [][Advance]_vars

\* C6 witness: a source with Transactions, then one without rows, then one
\* with Transactions, and the report written.
C6_Witness ==
    /\ prog = "dvf" /\ pc = "done"
    /\ \E i, j, k \in 1..Len(observed) :
        /\ i < j /\ j < k
        /\ Contribution(observed[i]) # <<>>
        /\ observed[j].rows = <<>>
        /\ Contribution(observed[k]) # <<>>
    /\ Len(all_transactions) = 2

\* the price the claim gives year y
ClaimedPrice(y) ==
    IF fetched[y] # <<>> THEN fetched[y][1]
    ELSE IF y \in 2020..2030 THEN fallback_data[y] ELSE 5500

\* C7: the Report of scrape_lepriximmo has one entry per year of start..end
\* in ascending order, whose price_per_m2 is the integer fetch_year_data
\* returned when it returned one, else the fallback table's value for a year
\* of 2020..2030, else 5500.
C7_PricePerYear ==
    (prog = "scrape" /\ pc = "done") =>
        LET st == Report.yearly_statistics
            n == IF end_year >= start_year THEN end_year - start_year + 1 ELSE 0
        IN  /\ Len(st) = n
            /\ \A i \in 1..Len(st) :
                /\ st[i].year = start_year + i - 1
                /\ st[i].price_per_m2 = ClaimedPrice(st[i].year)

\* the price of the leftmost cell of a row that yields one
FirstPrice(cells) ==
    LET hits == {j \in 1..Len(cells) : CellPrice(cells[j]) # <<>>}
    IN  IF hits = {} THEN <<>> ELSE CellPrice(cells[Min(hits)])
StreetRows(trs) == {i \in 1..Len(trs) : IsStreetRow(trs[i])}
PricedStreetRows(trs) == {i \in StreetRows(trs) : FirstPrice(trs[i]) # <<>>}

\* C8 as claimed: the first row naming the street decides the result, and a
\* first such row without a parsable price yields not-found.
C8_FirstStreetRowDecides ==
    (prog = "page" /\ pc = "done") =>
        price = IF page.kind = "error" \/ StreetRows(page.rows) = {} THEN <<>>
                ELSE FirstPrice(page.rows[Min(StreetRows(page.rows))])

\* C8 as amended: the first row naming the street that has a cell with a
\* parsable match decides the result, which is the integer of its leftmost
\* such cell; not-found when no row names the street with a parsable match
\* or the request fails.
C8_FirstPricedStreetRowDecides ==
    (prog = "page" /\ pc = "done") =>
        price = IF page.kind = "error" \/ PricedStreetRows(page.rows) = {} THEN <<>>
                ELSE FirstPrice(page.rows[Min(PricedStreetRows(page.rows))])

\* C8 witness: the first row naming the street has no parsable price, a later
\* one has, and a price is returned.
C8_Witness ==
    /\ prog = "page" /\ pc = "done"
    /\ page.kind = "ok"
    /\ PricedStreetRows(page.rows) # {}
    /\ Min(StreetRows(page.rows)) < Min(PricedStreetRows(page.rows))
    /\ price # <<>>

\* C9: a second run that meets what the first run met writes the same
\* data.json, for the scrape pipeline up to last_updated.
C9_SecondRunWritesTheSame ==
    (run = 2 /\ pc = "done") =>
        IF prog = "dvf" THEN output = prev_output
        ELSE [output[1] EXCEPT !.last_updated = 0]
             = [prev_output[1] EXCEPT !.last_updated = 0]

\* the surface field is "0", empty, whitespace only, absent or no number
BadSurface(row) ==
    LET f == row.surface_reelle_bati
    IN  \/ f.k # "str"
        \/ f.v = <<"0">>
        \/ StrStrip(f.v) = <<>>
        \/ ~FloatOk(Replace(StrStrip(f.v), ",", <<".">>))
GoodSurface(row) == ~BadSurface(row)

\* C10: a row whose surface_reelle_bati is "0", empty, whitespace only,
\* absent or not a number yields no Transaction, and the list returned is
\* the one the other rows yield, in their order, also when a row is rejected
\* by an error raised in the loop body.
C10_BadSurfaceRowsDropOut ==
    (prog = "pt" /\ pc = "done") =>
        /\ results = YieldOf(rows, GoodSurface, Y2020)
        /\ \A i \in 1..Len(rows) :
            BadSurface(rows[i]) => process_transactions(<<rows[i]>>, Y2020) = <<>>

\* C10 witness: a row of the target street whose surface is None, so that the
\* loop body raises, between two rows that yield Transactions.
C10_Witness ==
    /\ prog = "pt" /\ pc = "done"
    /\ Len(rows) = 3
    /\ MatchesTarget(rows[2]) /\ rows[2].surface_reelle_bati = None
    /\ rows[2].valeur_fonciere = Str(<<"1", "0", "0", "0">>)
    /\ Len(results) = 2

====
